---- MODULE Spec2Model ----
(***************************************************************************)
(* tap-sumologic: discovery (schema resolution) and extraction of one      *)
(* configured table, driven against the Sumo Logic Search Job and Metrics  *)
(* APIs.  Every API request is one step; the API's answer is chosen by the *)
(* environment inside that step.                                           *)
(***************************************************************************)
EXTENDS Integers, Sequences, FiniteSets, TLC

VARIABLES
    table,          \* the table configuration (self.config["tables"][i])
    pc,             \* position of the tap in discover_streams / get_records
    streams,        \* streams built by discover_streams
    jobs,           \* number of search jobs the API has accepted
    search_job,     \* local: the job of the running function (<<>> = unset)
    status,         \* local: last status payload (<<>> = unset)
    probe_count,    \* local `count` of get_search_job_fields
    now_datetime,   \* local of get_records (<<>> = unset)
    record_count,   \* local of get_records
    count,          \* local of get_records: running offset
    records,        \* local of get_records: the collected rows
    yielded,        \* rows handed to the consumer of get_records
    events,         \* API requests (with their answers) and sleeps, in order
    raised,         \* the exception that ended the run (<<>> = none)
    sumo            \* the SumoLogic client object (<<>> = not constructed)

vars == << table, pc, streams, jobs, search_job, status, probe_count,
           now_datetime, record_count, count, records, yielded, events, raised,
           sumo >>

----------------------------------------------------------------------------
(* Bounds of the model *)

MaxCount == 2       \* largest recordCount / messageCount the API reports
MaxPageRows == 2    \* most rows the API puts in one result page
MaxPolls == 3       \* status requests after which the API reports a terminal state
MaxFields == 2      \* most field descriptors in a probe's result page
MaxRequests == 2    \* most requests made through one client object on its own

(* Program constants *)

limit == 10000      \* page size of get_records
delay == 5          \* seconds slept between two polls
ProbeLimit == 1     \* page size of the schema probe
ProbePolls == 2     \* `count == 2` of the schema probe

----------------------------------------------------------------------------
(* Values *)

None == <<>>
Some(v) == <<v>>

DONE == "DONE GATHERING RESULTS"
GATHERING == "GATHERING RESULTS"
CANCELLED == "CANCELLED"
NOT_STARTED == "NOT STARTED"
JobStates == {NOT_STARTED, GATHERING, DONE, CANCELLED}

start_date == "2024-01-01T00:00:00"
end_date == "2024-01-02T00:00:00"
time_zone == "UTC"

HttpCodes == {200, 401, 500}

RangeOf(s) == {s[i] : i \in 1..Len(s)}

Put(f, k, v) == [x \in (DOMAIN f) \cup {k} |-> IF x = k THEN v ELSE f[x]]

Del(f, k) == [x \in (DOMAIN f) \ {k} |-> f[x]]

\* {**a, **b}: the keys of both, b's value where both have the key
Merge(a, b) == [x \in (DOMAIN a) \cup (DOMAIN b) |-> IF x \in DOMAIN b THEN b[x] ELSE a[x]]

EmptyMap == [x \in {} |-> None]

----------------------------------------------------------------------------
(* Table configurations *)

QueryTypes == {"records", "messages", "metrics", "events"}
ValidQueryTypes == {"records", "messages", "metrics"}

\* the schema entry of a table: absent, a path to a schema file, an inline schema
SchemaConfigs == {"none", "path", "inline"}

QuantizationValues == {None, Some(0), Some(60000)}
RollupValues == {None, Some("Avg")}
TimeshiftValues == {None, Some(0), Some(-3600000)}

\* quantization, rollup and timeshift are configured on metrics tables only
Tables ==
    { t \in [ table_name : {"t"},
              query : {<<"q">>},
              query_type : QueryTypes,
              schema : SchemaConfigs,
              primary_keys : {<< >>, <<"id">>},
              by_receipt_time : {FALSE},
              auto_parsing_mode : {"intelligent"},
              quantization : QuantizationValues,
              rollup : RollupValues,
              timeshift : TimeshiftValues ] :
        t.query_type # "metrics" =>
            /\ t.quantization = None /\ t.rollup = None /\ t.timeshift = None }

\* the schema a table supplies (the file's content, or the inline object)
SuppliedSchema(query_type) ==
    IF query_type = "metrics"
    THEN [ type |-> "object",
           properties |-> [ metricDefinition |-> [type |-> <<"object", "null">>],
                            points |-> [type |-> <<"object", "null">>] ],
           key_properties |-> <<"metricDefinition">> ]
    ELSE [ type |-> "object",
           properties |-> [ host |-> [type |-> <<"null", "string">>],
                            cnt |-> [type |-> <<"null", "integer">>],
                            start_date |-> [type |-> <<"null", "string">>] ],
           key_properties |-> <<"host">> ]

\* SchemaBuilder().add_schema(schema_config); to_schema(): the schema's keywords
\* are kept and the "$schema" keyword is added
SchemaBuilder_to_schema(schema_config) ==
    Put(schema_config, "$schema", "http://json-schema.org/schema#")

----------------------------------------------------------------------------
(* Answers of the API *)

\* GET /search/jobs/{id}: the payload carries the state, both counts (a job has
\* at least as many messages as records) and the histogram
StatusPayloads(hist) ==
    { IF h THEN p ELSE Del(p, "histogramBuckets") :
        p \in { q \in [ state : JobStates,
                        recordCount : 0..MaxCount,
                        messageCount : 0..(MaxCount + 1),
                        histogramBuckets : {<< >>} ] :
                    q.messageCount \in {q.recordCount, q.recordCount + 1} },
        h \in hist }

\* field descriptors of a result page
FieldNames == <<"host", "_messagetime", "_messageid", "start_date">>
FieldTypes == {"int", "long", "double", "string", "boolean"}
FieldDescriptors(n, types) == [ name : {n}, fieldType : types, keyField : BOOLEAN ]

\* the descriptor lists a page may carry: distinct names among the first
\* `names` field names, in the API's order, at most `len` of them
RECURSIVE FieldLists(_, _, _, _)
FieldLists(from, len, names, types) ==
    IF len = 0 \/ from > names THEN { << >> }
    ELSE { << >> } \cup
         UNION { { <<d>> \o rest : d \in FieldDescriptors(FieldNames[i], types),
                                   rest \in FieldLists(i + 1, len - 1, names, types) } :
                 i \in from..names }

\* what the probe's page may report: every name and type; or the first two
\* names as strings
AnyFields == FieldLists(1, MaxFields, Len(FieldNames), FieldTypes)
StringFields == FieldLists(1, MaxFields, Len(FieldNames) - 2, {"string"})

\* the row maps of a result page: row k of the result set always has `host`;
\* the other fields depend on the shape of the job's rows
RowShapes == {"full", "sparse", "clash"}
RowMap(shape, k) ==
    IF shape = "full" THEN [host |-> k, cnt |-> "7"]
    ELSE IF shape = "sparse" THEN [host |-> k]
    ELSE [ host |-> k, start_date |-> "row", end_date |-> "row", time_zone |-> "row",
           _SDC_EXTRACTED_AT |-> "row", _SDC_BATCHED_AT |-> "row",
           _SDC_DELETED_AT |-> "row" ]

\* a page of n rows starting at `offset`
Page(shape, offset, n) == [i \in 1..n |-> [map |-> RowMap(shape, offset + i - 1)]]

\* POST /metricsQueries
TimeSeries == << [metricDefinition |-> "m1", points |-> "p1"],
                 [metricDefinition |-> "m2", points |-> "p2"] >>
MetricsResponses ==
    [ errors : [errors : {<< >>, <<"bad query">>}],
      queryResult : { << >>,
                      << [timeSeriesList |-> [timeSeries |-> << >>]] >>,
                      << [timeSeriesList |-> [timeSeries |-> SubSeq(TimeSeries, 1, 1)]] >>,
                      << [timeSeriesList |-> [timeSeries |-> TimeSeries]] >> } ]

----------------------------------------------------------------------------
(* sumologic_sdk.py: the client object and its endpoint *)

\* a URL is the sequence of its segments after the scheme; a trailing slash is
\* an empty last segment
DefaultRootUrl == <<"api.sumologic.com", "api">>

\* the deployments the default endpoint redirects to
Deployments == { <<"api.sumologic.com", "api">>,
                 <<"api.us2.sumologic.com", "api">>,
                 <<"api.au.sumologic.com", "api">> }

\* the `endpoint` argument of SumoLogic(): absent, a URL, a URL ending in "/"
EndpointArgs == { None,
                  Some(<<"api.eu.sumologic.com", "api">>),
                  Some(<<"api.eu.sumologic.com", "api", "">>) }

\* url.replace("/v1/collectors", ""): every occurrence is removed
RECURSIVE ReplaceCollectors(_)
ReplaceCollectors(url) ==
    IF Len(url) < 2 THEN url
    ELSE IF url[1] = "v1" /\ url[2] = "collectors"
    THEN ReplaceCollectors(SubSeq(url, 3, Len(url)))
    ELSE <<url[1]>> \o ReplaceCollectors(Tail(url))

\* SumoLogic._get_endpoint: the dummy request to the default endpoint, answered
\* from `response_url` after the redirect
get_endpoint_request(response_url) ==
    [ op |-> "_get_endpoint", method |-> "GET",
      url |-> DefaultRootUrl \o <<"v1", "collectors">>,
      response_url |-> response_url ]

\* the versioned endpoint built from the default endpoint, not the client's
get_versioned_endpoint_Default(endpoint, version) == Append(DefaultRootUrl, version)

\* SumoLogic.get_versioned_endpoint: self.endpoint + "/%s" % version
get_versioned_endpoint(endpoint, version) == Append(endpoint, version)

\* the client the tap works with: built with the configuration's root_url,
\* which has a default, so without a resolution request
ConfiguredClient == Some([endpoint_arg |-> Some(DefaultRootUrl), endpoint |-> DefaultRootUrl])

----------------------------------------------------------------------------
(* sumologic_sdk.py: the requests the client builds *)

\* SumoLogic.search_job: POST /search/jobs
search_job_request(query, from_time, to_time, tz, by_receipt_time, auto_parsing_mode) ==
    [ op |-> "search_job", method |-> "POST", path |-> <<"search", "jobs">>,
      params |-> [ query |-> query, from |-> from_time, to |-> to_time,
                   timeZone |-> tz, byReceiptTime |-> by_receipt_time,
                   autoParsingMode |-> auto_parsing_mode ] ]

\* SumoLogic.search_job_status: GET /search/jobs/{id}
search_job_status_request(job) ==
    [ op |-> "search_job_status", method |-> "GET",
      path |-> <<"search", "jobs", job.id>>, params |-> None ]

\* the page request with the offset left at its default
search_job_records_request_NoOffset(job, query_type, lim, offset) ==
    [ op |-> "search_job_records", method |-> "GET",
      path |-> <<"search", "jobs", job.id, query_type>>,
      params |-> [limit |-> lim, offset |-> 0] ]

\* SumoLogic.search_job_records: GET /search/jobs/{id}/{query_type}
search_job_records_request(job, query_type, lim, offset) ==
    [ op |-> "search_job_records", method |-> "GET",
      path |-> <<"search", "jobs", job.id, query_type>>,
      params |-> [limit |-> lim, offset |-> offset] ]

\* the query object with `if not option` in place of `if option is None`
MetricsQueryObject_Falsy(query, quantization, rollup, timeshift) ==
    LET q0 == [ rowId |-> Some("A"), query |-> query, quantization |-> quantization,
                rollup |-> rollup, timeshift |-> timeshift ]
        q1 == IF quantization \in {None, Some(0)} THEN Del(q0, "quantization") ELSE q0
        q2 == IF rollup = None THEN Del(q1, "rollup") ELSE q1
        q3 == IF timeshift \in {None, Some(0)} THEN Del(q2, "timeshift") ELSE q2
    IN  q3

\* the query object of SumoLogic.metrics_query: built with all five keys, then
\* the keys of the options that are None are deleted
MetricsQueryObject(query, quantization, rollup, timeshift) ==
    LET q0 == [ rowId |-> Some("A"), query |-> query, quantization |-> quantization,
                rollup |-> rollup, timeshift |-> timeshift ]
        q1 == IF quantization = None THEN Del(q0, "quantization") ELSE q0
        q2 == IF rollup = None THEN Del(q1, "rollup") ELSE q1
        q3 == IF timeshift = None THEN Del(q2, "timeshift") ELSE q2
    IN  q3

\* SumoLogic.metrics_query: POST /metricsQueries
metrics_query_request(query, from_time, to_time, quantization, rollup, timeshift) ==
    [ op |-> "metrics_query", method |-> "POST", path |-> <<"metricsQueries">>,
      params |-> [ queries |-> << MetricsQueryObject(query, quantization, rollup, timeshift) >>,
                   timeRange |-> [ type |-> "BeginBoundedTimeRange",
                                   from |-> [ type |-> "Iso8601TimeRangeBoundary",
                                              iso8601Time |-> <<from_time, ".00+00:00">> ],
                                   to |-> [ type |-> "Iso8601TimeRangeBoundary",
                                            iso8601Time |-> <<to_time, ".00+00:00">> ] ] ] ]

\* the status test that lets the 4xx answers through
HttpFailed_ServerOnly(code) == 500 <= code /\ code < 600

\* SumoLogic.get / SumoLogic.post: raise_for_status raises for 4xx and 5xx, with
\* the response body as the reason
HttpFailed(code) == 400 <= code /\ code < 600
HTTPError(code) == Some([type |-> "HTTPError", status |-> code, reason |-> "body"])

----------------------------------------------------------------------------
(* tap.py: schema inference *)

base_type == <<"null", "string">>

\* the type list with the boolean branch restored
FieldSchemaType_Boolean(field_type) ==
    IF field_type = "int" THEN Append(base_type, "integer")
    ELSE IF field_type = "long" THEN Append(base_type, "integer")
    ELSE IF field_type = "double" THEN Append(base_type, "number")
    ELSE IF field_type = "boolean" THEN Append(base_type, "boolean")
    ELSE base_type

\* the type list of one field descriptor (the boolean branch is commented out)
FieldSchemaType(field_type) ==
    IF field_type = "int" THEN Append(base_type, "integer")
    ELSE IF field_type = "long" THEN Append(base_type, "integer")
    ELSE IF field_type = "double" THEN Append(base_type, "number")
    ELSE base_type

\* the loop over the field descriptors: schema[field_name] after fields[1..i]
RECURSIVE InferProperties(_, _)
InferProperties(fields, i) ==
    IF i = 0 THEN EmptyMap
    ELSE Put(InferProperties(fields, i - 1), fields[i].name,
             [type |-> FieldSchemaType(fields[i].fieldType)])

\* the loop over the field descriptors: key_properties after fields[1..i]
RECURSIVE InferKeys(_, _)
InferKeys(fields, i) ==
    IF i = 0 THEN << >>
    ELSE IF fields[i].keyField
         THEN Append(InferKeys(fields, i - 1), fields[i].name)
         ELSE InferKeys(fields, i - 1)

\* the window columns added to the inferred properties
WindowProperties(schema) ==
    Put(Put(Put(schema, "start_date", [type |-> base_type]),
            "end_date", [type |-> base_type]),
        "time_zone", [type |-> base_type])

\* the key properties appended after the loop
WindowKeys(query_type) ==
    <<"start_date", "end_date", "time_zone">>
        \o (IF query_type = "messages" THEN <<"_messagetime", "_messageid">> ELSE << >>)

\* TapSumoLogic.get_schema_for_table, from the fields the probe returned;
\* the empty dict when the query type is none of the three (`return {}`)
get_schema_for_table(table_config, fields) ==
    IF table_config.query_type \in {"records", "messages"}
    THEN Some([ type |-> "object",
                properties |-> WindowProperties(InferProperties(fields, Len(fields))),
                key_properties |-> InferKeys(fields, Len(fields))
                                       \o WindowKeys(table_config.query_type) ])
    ELSE IF table_config.query_type = "metrics"
    THEN Some([ type |-> "object",
                properties |-> [ metricDefinition |-> [type |-> <<"object", "null">>],
                                 points |-> [type |-> <<"object", "null">>] ],
                key_properties |-> <<"metricDefinition", "points">> ])
    ELSE Some(EmptyMap)

\* the probe's query: " | limit 1" is appended for records and messages
ProbeQuery(table_config) ==
    IF table_config.query_type \in {"records", "messages"}
    THEN Append(table_config.query, "| limit 1")
    ELSE table_config.query

\* stream["primary_keys"] or schema["key_properties"]
StreamPrimaryKeys(primary_keys, schema) ==
    IF primary_keys # << >> THEN primary_keys ELSE schema["key_properties"]

\* the SearchJobStream discover_streams appends
SearchJobStream(t, schema) ==
    [ name |-> t.table_name,
      query_type |-> t.query_type,
      primary_keys |-> StreamPrimaryKeys(t.primary_keys, schema),
      schema |-> schema,
      query |-> t.query,
      by_receipt_time |-> t.by_receipt_time,
      auto_parsing_mode |-> t.auto_parsing_mode,
      quantization |-> t.quantization,
      rollup |-> t.rollup,
      timeshift |-> t.timeshift ]

----------------------------------------------------------------------------
(* State *)

Init ==
    /\ table \in Tables
    /\ pc = "discover"
    /\ streams = << >>
    /\ jobs = 0
    /\ search_job = None
    /\ status = None
    /\ probe_count = 0
    /\ now_datetime = None
    /\ record_count = 0
    /\ count = 0
    /\ records = << >>
    /\ yielded = << >>
    /\ events = << >>
    /\ raised = None
    /\ sumo = ConfiguredClient

Min(a, b) == IF a < b THEN a ELSE b

\* an answered request, as it is kept in `events`
Answered(request, code, answer) == request @@ [code |-> code, answer |-> answer]

Sleep(seconds) == [op |-> "sleep", seconds |-> seconds]

\* datetime.utcnow(): the time is the number of requests and sleeps so far
utcnow == Len(events)

\* status requests issued so far for `job`
StatusRequests(job) ==
    Cardinality({ i \in DOMAIN events :
                    /\ events[i].op = "search_job_status"
                    /\ events[i].path[3] = job.id })

\* the run ends with an exception: nothing else changes
Raise(exc) ==
    /\ raised' = exc
    /\ pc' = "failed"

----------------------------------------------------------------------------
(* tap.py: discover_streams *)

\* discover_streams after the schema is resolved: the query_type check, then the
\* stream is appended
FinishDiscovery(schema) ==
    IF table.query_type \notin ValidQueryTypes
    THEN /\ Raise(Some([type |-> "ValueError", status |-> 0, reason |-> "Invalid query_type"]))
         /\ UNCHANGED streams
    ELSE /\ streams' = Append(streams, SearchJobStream(table, schema[1]))
         /\ pc' = "discovered"
         /\ UNCHANGED raised

\* discover_streams probing the API whether or not a schema is supplied
discover_streams_AlwaysProbe ==
    /\ pc = "discover"
    /\ UNCHANGED << sumo, table, jobs, search_job, status, probe_count, now_datetime,
                    record_count, count, records, yielded, events >>
    /\ IF table.query_type \in {"records", "messages"}
       THEN pc' = "probe_submit" /\ UNCHANGED << streams, raised >>
       ELSE IF table.query_type = "metrics"
       THEN pc' = "probe_metrics" /\ UNCHANGED << streams, raised >>
       ELSE FinishDiscovery(get_schema_for_table(table, << >>))

\* discover_streams with a probe that runs a search job for every query type
\* but metrics
discover_streams_ProbeUnknown ==
    /\ pc = "discover"
    /\ UNCHANGED << sumo, table, jobs, search_job, status, probe_count, now_datetime,
                    record_count, count, records, yielded, events >>
    /\ IF table.schema = "path"
       THEN FinishDiscovery(Some(SuppliedSchema(table.query_type)))
       ELSE IF table.schema = "inline"
       THEN FinishDiscovery(Some(SchemaBuilder_to_schema(SuppliedSchema(table.query_type))))
       ELSE IF table.query_type # "metrics"
       THEN pc' = "probe_submit" /\ UNCHANGED << streams, raised >>
       ELSE pc' = "probe_metrics" /\ UNCHANGED << streams, raised >>

\* discover_streams up to its first API request: a supplied schema is used as it
\* is; with none, get_schema_for_table starts the probe of the table's query type
discover_streams ==
    /\ pc = "discover"
    /\ UNCHANGED << sumo, table, jobs, search_job, status, probe_count, now_datetime,
                    record_count, count, records, yielded, events >>
    /\ IF table.schema = "path"
       THEN FinishDiscovery(Some(SuppliedSchema(table.query_type)))
       ELSE IF table.schema = "inline"
       THEN FinishDiscovery(Some(SchemaBuilder_to_schema(SuppliedSchema(table.query_type))))
       ELSE IF table.query_type \in {"records", "messages"}
       THEN pc' = "probe_submit" /\ UNCHANGED << streams, raised >>
       ELSE IF table.query_type = "metrics"
       THEN pc' = "probe_metrics" /\ UNCHANGED << streams, raised >>
       ELSE FinishDiscovery(get_schema_for_table(table, << >>))

----------------------------------------------------------------------------
(* sumologic_sdk.py: get_search_job_fields, the schema probe *)

\* search_job: the probe's job is submitted
get_search_job_fields_submit ==
    /\ pc = "probe_submit"
    /\ \E code \in HttpCodes :
         LET request == search_job_request(ProbeQuery(table), start_date, end_date, time_zone,
                                           table.by_receipt_time, table.auto_parsing_mode)
         IN  /\ events' = Append(events, Answered(request, code, None))
             /\ IF HttpFailed(code)
                THEN /\ Raise(HTTPError(code))
                     /\ UNCHANGED << jobs, search_job >>
                ELSE /\ jobs' = jobs + 1
                     /\ search_job' = Some([id |-> jobs + 1])
                     /\ pc' = "probe_status"
                     /\ UNCHANGED raised
    /\ probe_count' = 0
    /\ status' = None
    /\ UNCHANGED << sumo, table, streams, now_datetime, record_count, count,
                    records, yielded >>

\* the probe after its loop fetching a page for the done state only
ProbeAfterLoop_DoneOnly(payload) ==
    IF payload.state = DONE
    THEN /\ pc' = "probe_fetch"
         /\ status' = Some(payload)
         /\ UNCHANGED << streams, raised, search_job >>
    ELSE /\ FinishDiscovery(get_schema_for_table(table, << >>))
         /\ status' = Some(payload)
         /\ UNCHANGED search_job

\* the probe after its polling loop: a page is fetched when the state is the
\* done or the gathering state, else the fields stay empty
ProbeAfterLoop(payload) ==
    IF payload.state \in {DONE, GATHERING}
    THEN /\ pc' = "probe_fetch"
         /\ status' = Some(payload)
         /\ UNCHANGED << streams, raised, search_job >>
    ELSE /\ FinishDiscovery(get_schema_for_table(table, << >>))
         /\ status' = Some(payload)
         /\ UNCHANGED search_job

\* the probe's loop without its cancelled check
ProbeDecision_NoCancel(state, polled) ==
    IF state = DONE THEN "leave"
    ELSE IF polled + 1 = ProbePolls THEN "sleep_break"
    ELSE "sleep_poll"

\* the probe's loop with its count test one later
ProbeDecision_LateBreak(state, polled) ==
    IF state = DONE THEN "leave"
    ELSE IF state = CANCELLED THEN "break"
    ELSE IF polled + 1 = ProbePolls + 1 THEN "sleep_break"
    ELSE "sleep_poll"

\* the probe's loop on a status: leave on done, break on cancelled, else sleep
\* and count, and break when the count is 2
ProbeDecision(state, polled) ==
    IF state = DONE THEN "leave"
    ELSE IF state = CANCELLED THEN "break"
    ELSE IF polled + 1 = ProbePolls THEN "sleep_break"
    ELSE "sleep_poll"

\* search_job_status inside the probe's loop: one status request, then the
\* loop's decision (done: leave; cancelled: break; else sleep, count, break at 2)
get_search_job_fields_poll ==
    /\ pc = "probe_status"
    /\ \E code \in HttpCodes, payload \in StatusPayloads({TRUE}) :
         LET request == search_job_status_request(search_job[1])
             answered == Answered(request, code, None)
         IN  IF HttpFailed(code)
             THEN /\ events' = Append(events, answered)
                  /\ Raise(HTTPError(code))
                  /\ UNCHANGED << streams, search_job, status, probe_count >>
             ELSE IF ProbeDecision(payload.state, probe_count) \in {"leave", "break"}
             THEN /\ events' = Append(events, answered)
                  /\ ProbeAfterLoop(payload)
                  /\ UNCHANGED probe_count
             ELSE /\ events' = events \o << answered, Sleep(delay) >>
                  /\ probe_count' = probe_count + 1
                  /\ IF ProbeDecision(payload.state, probe_count) = "sleep_break"
                     THEN ProbeAfterLoop(payload)
                     ELSE /\ status' = Some(payload)
                          /\ UNCHANGED << pc, streams, raised, search_job >>
    /\ UNCHANGED << sumo, table, jobs, now_datetime, record_count, count, records, yielded >>

\* search_job_records(limit=1): the page's field descriptors become the schema
get_search_job_fields_fetch(reported) ==
    /\ pc = "probe_fetch"
    /\ \E code \in HttpCodes, fields \in reported :
         LET request == search_job_records_request(search_job[1], table.query_type, ProbeLimit, 0)
         IN  /\ events' = Append(events, Answered(request, code,
                                    IF HttpFailed(code) THEN None ELSE Some(fields)))
             /\ IF HttpFailed(code)
                THEN Raise(HTTPError(code)) /\ UNCHANGED streams
                ELSE FinishDiscovery(get_schema_for_table(table, fields))
    /\ UNCHANGED << sumo, table, jobs, search_job, status, probe_count, now_datetime,
                    record_count, count, records, yielded >>

\* get_metrics_query_fields without its test of the error list
get_metrics_query_fields_NoErrorCheck ==
    /\ pc = "probe_metrics"
    /\ \E code \in HttpCodes, response \in MetricsResponses :
         LET request == metrics_query_request(ProbeQuery(table), start_date, end_date,
                                              table.quantization, table.rollup, table.timeshift)
         IN  /\ events' = Append(events, Answered(request, code,
                                    IF HttpFailed(code) THEN None ELSE Some(response)))
             /\ IF HttpFailed(code)
                THEN Raise(HTTPError(code)) /\ UNCHANGED streams
                ELSE IF response.queryResult = << >>
                THEN /\ Raise(Some([type |-> "IndexError", status |-> 0, reason |-> "queryResult"]))
                     /\ UNCHANGED streams
                ELSE FinishDiscovery(get_schema_for_table(table, << >>))
    /\ UNCHANGED << sumo, table, jobs, search_job, status, probe_count, now_datetime,
                    record_count, count, records, yielded >>

\* get_metrics_query_fields: the metrics query is run once; a non-empty error
\* list raises, else the first query result is read and the fixed schema returned
get_metrics_query_fields ==
    /\ pc = "probe_metrics"
    /\ \E code \in HttpCodes, response \in MetricsResponses :
         LET request == metrics_query_request(ProbeQuery(table), start_date, end_date,
                                              table.quantization, table.rollup, table.timeshift)
         IN  /\ events' = Append(events, Answered(request, code,
                                    IF HttpFailed(code) THEN None ELSE Some(response)))
             /\ IF HttpFailed(code)
                THEN Raise(HTTPError(code)) /\ UNCHANGED streams
                ELSE IF Len(response.errors.errors) > 0
                THEN /\ Raise(Some([type |-> "Exception", status |-> 0, reason |-> "Request error"]))
                     /\ UNCHANGED streams
                ELSE IF response.queryResult = << >>
                THEN /\ Raise(Some([type |-> "IndexError", status |-> 0, reason |-> "queryResult"]))
                     /\ UNCHANGED streams
                ELSE FinishDiscovery(get_schema_for_table(table, << >>))
    /\ UNCHANGED << sumo, table, jobs, search_job, status, probe_count, now_datetime,
                    record_count, count, records, yielded >>

----------------------------------------------------------------------------
(* streams.py: SearchJobStream.get_records *)

\* the stream being extracted
Stream == streams[1]

custom_columns(now) ==
    [ start_date |-> start_date,
      end_date |-> end_date,
      time_zone |-> time_zone,
      _SDC_EXTRACTED_AT |-> now,
      _SDC_BATCHED_AT |-> now,
      _SDC_DELETED_AT |-> "None" ]

\* f"{self.query_type[:-1]}Count"
CountKey(query_type) ==
    IF query_type = "records" THEN "recordCount"
    ELSE IF query_type = "messages" THEN "messageCount"
    ELSE "metricCount"

\* the rows stamped with the time of their page, not of the run's start
ShapeRows_Restamped(recs, now) ==
    [i \in 1..Len(recs) |-> Merge(recs[i].map, custom_columns(utcnow))]

\* the merge with the row's fields written last
ShapeRows_RowWins(recs, now) ==
    [i \in 1..Len(recs) |-> Merge(custom_columns(now), recs[i].map)]

\* {**rec["map"], **custom_columns} for every row of a page
ShapeRows(recs, now) == [i \in 1..Len(recs) |-> Merge(recs[i].map, custom_columns(now))]

\* get_records of a records or messages stream, up to and with its job submission
get_records_search_job ==
    /\ pc = "discovered"
    /\ Stream.query_type \in {"messages", "records"}
    /\ \E code \in HttpCodes :
         LET request == search_job_request(Stream.query, start_date, end_date, time_zone,
                                           Stream.by_receipt_time, Stream.auto_parsing_mode)
         IN  /\ now_datetime' = Some(utcnow)
             /\ events' = Append(events, Answered(request, code, None))
             /\ IF HttpFailed(code)
                THEN /\ Raise(HTTPError(code))
                     /\ search_job' = None
                     /\ UNCHANGED jobs
                ELSE /\ jobs' = jobs + 1
                     /\ search_job' = Some([id |-> jobs + 1])
                     /\ pc' = "status"
                     /\ UNCHANGED raised
    /\ records' = << >>
    /\ status' = None
    /\ UNCHANGED << sumo, table, streams, probe_count, record_count, count, yielded >>

\* get_records after its polling loop ended on the done state: the count is read
\* and pagination starts unless it is zero
StartPagination(payload) ==
    /\ record_count' = payload[CountKey(Stream.query_type)]
    /\ count' = 0
    /\ pc' = IF 0 < payload[CountKey(Stream.query_type)] THEN "page" ELSE "yield"

\* the polling loop without its cancelled check
PollDecision_NoCancel(state) ==
    IF state = DONE THEN "leave" ELSE "sleep_poll"

\* the polling loop of get_records on a status: leave on done, break on
\* cancelled, else sleep and poll again
PollDecision(state) ==
    IF state = DONE THEN "leave"
    ELSE IF state = CANCELLED THEN "break"
    ELSE "sleep_poll"

\* after the loop, without the test of the done state
AfterPolling_Always(payload) == StartPagination(payload)

\* after the loop: pagination only when the state is the done state
AfterPolling(payload) ==
    IF payload.state = DONE
    THEN StartPagination(payload)
    ELSE /\ pc' = "yield"
         /\ UNCHANGED << record_count, count >>

\* one status request of get_records and the loop's decision on its answer; a
\* re-polled payload has its histogramBuckets deleted
get_records_poll(hist) ==
    /\ pc = "status"
    /\ \E code \in HttpCodes, payload \in StatusPayloads(hist) :
         LET request == search_job_status_request(search_job[1])
             answered == Answered(request, code, None)
             repoll == status # None
             kept == IF repoll THEN Del(payload, "histogramBuckets") ELSE payload
         IN  /\ (payload.state \notin {DONE, CANCELLED}) => StatusRequests(search_job[1]) + 1 < MaxPolls
             /\ IF HttpFailed(code)
                THEN /\ events' = Append(events, answered)
                     /\ Raise(HTTPError(code))
                     /\ UNCHANGED << status, record_count, count >>
                ELSE IF repoll /\ "histogramBuckets" \notin DOMAIN payload
                THEN /\ events' = Append(events, answered)
                     /\ Raise(Some([type |-> "KeyError", status |-> 0, reason |-> "histogramBuckets"]))
                     /\ status' = Some(payload)
                     /\ UNCHANGED << record_count, count >>
                ELSE /\ status' = Some(kept)
                     /\ UNCHANGED raised
                     /\ IF PollDecision(payload.state) \in {"leave", "break"}
                        THEN /\ events' = Append(events, answered)
                             /\ AfterPolling(kept)
                        ELSE /\ events' = events \o << answered, Sleep(delay) >>
                             /\ UNCHANGED << pc, record_count, count >>
    /\ UNCHANGED << sumo, table, streams, jobs, search_job, probe_count, now_datetime,
                    records, yielded >>

\* the rows of one job have one shape: the pages answered so far for `job` are
\* pages of `shape`
SameShape(job, shape) ==
    \A i \in DOMAIN events :
        (/\ events[i].op = "search_job_records"
         /\ events[i].path[3] = job.id
         /\ events[i].answer # None)
        => events[i].answer[1] = Page(shape, events[i].params.offset, Len(events[i].answer[1]))

\* the pagination loop without its break on an empty page
PageDecision_NoBreak(n, c, total) ==
    [count |-> c + n, pc |-> IF c + n < total THEN "page" ELSE "yield"]

\* the pagination loop after a page of n rows at offset `c`: an empty page
\* breaks, else the loop goes on while the new offset is below the total
PageDecision(n, c, total) ==
    IF n > 0
    THEN [count |-> c + n, pc |-> IF c + n < total THEN "page" ELSE "yield"]
    ELSE [count |-> c, pc |-> "yield"]

\* one page request of get_records: the rows are shaped and collected, the offset
\* advances by the rows returned, and an empty page ends the loop
get_records_page ==
    /\ pc = "page"
    /\ \E code \in HttpCodes, n \in 0..Min(MaxPageRows, limit), shape \in RowShapes :
         LET request == search_job_records_request(search_job[1], Stream.query_type, limit, count)
             recs == Page(shape, count, n)
         IN  /\ IF count = 0 /\ n = 0 THEN shape = "full" ELSE SameShape(search_job[1], shape)
             /\ events' = Append(events, Answered(request, code,
                                    IF HttpFailed(code) THEN None ELSE Some(recs)))
             /\ IF HttpFailed(code)
                THEN /\ Raise(HTTPError(code))
                     /\ UNCHANGED << records, count >>
                ELSE /\ records' = records \o ShapeRows(recs, now_datetime[1])
                     /\ UNCHANGED raised
                     /\ count' = PageDecision(Len(recs), count, record_count).count
                     /\ pc' = PageDecision(Len(recs), count, record_count).pc
    /\ UNCHANGED << sumo, table, streams, jobs, search_job, status, probe_count, now_datetime,
                    record_count, yielded >>

\* get_records of a metrics stream: one metrics query, whose first query result's
\* time series become the records
get_records_metrics ==
    /\ pc = "discovered"
    /\ Stream.query_type = "metrics"
    /\ \E code \in HttpCodes, response \in MetricsResponses :
         LET request == metrics_query_request(Stream.query, start_date, end_date,
                                              Stream.quantization, Stream.rollup, Stream.timeshift)
         IN  /\ now_datetime' = Some(utcnow)
             /\ events' = Append(events, Answered(request, code,
                                    IF HttpFailed(code) THEN None ELSE Some(response)))
             /\ IF HttpFailed(code)
                THEN Raise(HTTPError(code)) /\ UNCHANGED records
                ELSE IF response.queryResult = << >>
                THEN /\ Raise(Some([type |-> "IndexError", status |-> 0, reason |-> "queryResult"]))
                     /\ UNCHANGED records
                ELSE /\ records' = response.queryResult[1].timeSeriesList.timeSeries
                     /\ pc' = "yield"
                     /\ UNCHANGED raised
    /\ UNCHANGED << sumo, table, streams, jobs, search_job, status, probe_count,
                    record_count, count, yielded >>

\* the rows handed over while pages are still being requested
get_records_yield_Early ==
    /\ pc \in {"yield", "page"}
    /\ IF Len(yielded) < Len(records)
       THEN /\ yielded' = Append(yielded, records[Len(yielded) + 1])
            /\ UNCHANGED pc
       ELSE /\ pc = "yield"
            /\ pc' = "done"
            /\ UNCHANGED yielded
    /\ UNCHANGED << sumo, table, streams, jobs, search_job, status, probe_count, now_datetime,
                    record_count, count, records, events, raised >>

\* `for row in records: yield row`: the next row goes to the consumer, and the
\* generator ends after the last one
get_records_yield ==
    /\ pc = "yield"
    /\ IF Len(yielded) < Len(records)
       THEN /\ yielded' = Append(yielded, records[Len(yielded) + 1])
            /\ UNCHANGED pc
       ELSE /\ pc' = "done"
            /\ UNCHANGED yielded
    /\ UNCHANGED << sumo, table, streams, jobs, search_job, status, probe_count, now_datetime,
                    record_count, count, records, events, raised >>

----------------------------------------------------------------------------
(* sumologic_sdk.py: a client object on its own *)

\* before SumoLogic() is called: a client is to be constructed, then used
InitClient ==
    /\ table \in { t \in Tables : /\ t.query_type = "records"
                                  /\ t.schema = "none"
                                  /\ t.primary_keys = << >> }
    /\ pc = "construct"
    /\ streams = << >>
    /\ jobs = 0
    /\ search_job = None
    /\ status = None
    /\ probe_count = 0
    /\ now_datetime = None
    /\ record_count = 0
    /\ count = 0
    /\ records = << >>
    /\ yielded = << >>
    /\ events = << >>
    /\ raised = None
    /\ sumo = None

\* the endpoint-resolution requests issued so far
Resolutions == { i \in DOMAIN events : events[i].op = "_get_endpoint" }

\* SumoLogic.__init__: with no endpoint argument the endpoint is resolved by
\* _get_endpoint (one request); an endpoint ending in "/" raises
SumoLogic_init ==
    /\ pc = "construct"
    /\ \E arg \in EndpointArgs, redirected \in Deployments :
         LET request == get_endpoint_request(redirected \o <<"v1", "collectors">>)
             endpoint == IF arg = None THEN ReplaceCollectors(request.response_url)
                         ELSE arg[1]
         IN  /\ events' = IF arg = None THEN Append(events, request) ELSE events
             /\ IF endpoint[Len(endpoint)] = ""
                THEN /\ Raise(Some([type |-> "Exception", status |-> 0,
                                    reason |-> "Endpoint should not end with a slash character"]))
                     /\ UNCHANGED sumo
                ELSE /\ sumo' = Some([endpoint_arg |-> arg, endpoint |-> endpoint])
                     /\ pc' = "client"
                     /\ UNCHANGED raised
    /\ UNCHANGED << table, streams, jobs, search_job, status, probe_count, now_datetime,
                    record_count, count, records, yielded >>

\* SumoLogic.get and SumoLogic.post: the request goes to the versioned endpoint
\* followed by the method's path, and a 4xx or 5xx answer raises
Send(request) ==
    \E code \in HttpCodes :
        LET url == get_versioned_endpoint(sumo[1].endpoint, "v1") \o request.path
        IN  /\ events' = Append(events, Answered(request, code, None) @@ [url |-> url])
            /\ raised' = IF HttpFailed(code) THEN HTTPError(code) ELSE None

\* a GET operation of the client: search_job_status or search_job_records
SumoLogic_get ==
    /\ pc = "client"
    /\ Len(events) - Cardinality(Resolutions) < MaxRequests
    /\ \E request \in { search_job_status_request([id |-> 1]),
                         search_job_records_request([id |-> 1], table.query_type, limit, 0) } :
         Send(request)
    /\ UNCHANGED << sumo, table, pc, streams, jobs, search_job, status, probe_count,
                    now_datetime, record_count, count, records, yielded >>

\* a POST operation of the client: search_job or metrics_query
SumoLogic_post ==
    /\ pc = "client"
    /\ Len(events) - Cardinality(Resolutions) < MaxRequests
    /\ \E request \in { search_job_request(table.query, start_date, end_date, time_zone,
                                            table.by_receipt_time, table.auto_parsing_mode),
                         metrics_query_request(table.query, start_date, end_date,
                                               None, None, None) } :
         Send(request)
    /\ UNCHANGED << sumo, table, pc, streams, jobs, search_job, status, probe_count,
                    now_datetime, record_count, count, records, yielded >>

----------------------------------------------------------------------------
(* Specifications *)

\* the status payloads of the API carry the histogram
DocumentedApi == {TRUE}

\* discovery and extraction of a table; the probed fields are strings
Next ==
    \/ discover_streams
    \/ get_search_job_fields_submit
    \/ get_search_job_fields_poll
    \/ get_search_job_fields_fetch(StringFields)
    \/ get_metrics_query_fields
    \/ get_records_search_job
    \/ get_records_poll(DocumentedApi)
    \/ get_records_page
    \/ get_records_metrics
    \/ get_records_yield

Spec == Init /\ [][Next]_vars

\* discovery alone; the probed fields have every type the API reports
NextDiscovery ==
    \/ discover_streams
    \/ get_search_job_fields_submit
    \/ get_search_job_fields_poll
    \/ get_search_job_fields_fetch(AnyFields)
    \/ get_metrics_query_fields

SpecDiscovery == Init /\ [][NextDiscovery]_vars

\* the status payloads with and without the histogram
AnyPayload == {TRUE, FALSE}

\* a table that supplies its schema
InitSupplied == Init /\ table.schema \in {"path", "inline"}

\* extraction of a table that supplies its schema; a status payload may come
\* without the histogram
NextAnyPayload ==
    \/ discover_streams
    \/ get_records_search_job
    \/ get_records_poll(AnyPayload)
    \/ get_records_page
    \/ get_records_metrics
    \/ get_records_yield

SpecAnyPayload == InitSupplied /\ [][NextAnyPayload]_vars

\* a client object on its own: constructed, then asked for requests
NextClient ==
    \/ SumoLogic_init
    \/ SumoLogic_get
    \/ SumoLogic_post

SpecClient == InitClient /\ [][NextClient]_vars

----------------------------------------------------------------------------
(* Properties *)

\* get_records has started
Extracting == now_datetime # None

\* get_records of a records or messages stream has submitted its job
SearchExtraction ==
    /\ Extracting
    /\ Stream.query_type \in {"records", "messages"}
    /\ search_job # None

StatusRequestsIn(log, job) ==
    Cardinality({ i \in DOMAIN log :
                    /\ log[i].op = "search_job_status"
                    /\ log[i].path[3] = job.id })

\* the page requests issued for `job`, in order
PageEvents(job) ==
    SelectSeq(events, LAMBDA e : e.op = "search_job_records" /\ e.path[3] = job.id)

AnswerRows(e) == IF e.answer = None THEN << >> ELSE e.answer[1]

\* rows returned by the first i of `pages`
RECURSIVE RowsIn(_, _)
RowsIn(pages, i) ==
    IF i = 0 THEN 0 ELSE RowsIn(pages, i - 1) + Len(AnswerRows(pages[i]))

\* the row maps of the first i of `pages`, in request order
RECURSIVE MapsIn(_, _)
MapsIn(pages, i) ==
    IF i = 0 THEN << >>
    ELSE MapsIn(pages, i - 1)
             \o [k \in 1..Len(AnswerRows(pages[i])) |-> AnswerRows(pages[i])[k].map]

LastEvent == events[Len(events)]

LastPageEmpty ==
    /\ events # << >>
    /\ LastEvent.op = "search_job_records"
    /\ LastEvent.answer = Some(<< >>)

\* the pagination loop of get_records was entered and has ended without an error
PaginationEnded ==
    /\ SearchExtraction
    /\ status # None
    /\ status[1].state = DONE
    /\ pc \in {"yield", "done"}

\* C1: in a full extraction of a records or messages table, once the job is
\* reported CANCELLED the extractor has stopped polling, issues no result-page
\* request, yields zero records and does not raise.
C1_CancelledYieldsNothing ==
    (SearchExtraction /\ status # None /\ status[1].state = CANCELLED)
    => /\ pc \in {"yield", "done"}
       /\ raised = None
       /\ records = << >>
       /\ yielded = << >>
       /\ Len(PageEvents(search_job[1])) = 0

\* C1 witness: the extraction ended after the statuses non-terminal,
\* non-terminal, CANCELLED (three status requests, two sleeps)
C1_Witness ==
    /\ SearchExtraction
    /\ pc = "done"
    /\ status[1].state = CANCELLED
    /\ StatusRequestsIn(events, search_job[1]) = 3

\* C2 as stated: when the pagination loop has ended, the cumulative offset
\* equals the reported total count or the last page returned zero rows.
C2_EndsAtTotalOrEmptyPage ==
    PaginationEnded => (count = record_count \/ LastPageEmpty)

\* C2 amended: the pagination loop halts after at most as many page requests as
\* the reported total count, it asks for a page only while the cumulative
\* offset is below the total, and it ends with the cumulative offset at least
\* the reported total count or right after a page that returned zero rows.
C2_PaginationHalts ==
    SearchExtraction
    => /\ Len(PageEvents(search_job[1])) <= record_count
       /\ (pc = "page" => count < record_count)
       /\ PaginationEnded => (count >= record_count \/ LastPageEmpty)

\* C2 witness: the loop ended on an empty page after a first page that fell
\* short of the reported total
C2_Witness ==
    /\ PaginationEnded
    /\ LastPageEmpty
    /\ 0 < count
    /\ count < record_count

\* C3: every page request of get_records uses limit 10000 and an offset equal
\* to the rows returned by the earlier page requests of the job (0 for the
\* first); none is issued once that total has reached the reported count; the
\* records are the pages' rows in request order, none skipped or repeated, and
\* they are yielded in that order.
C3_PageRequests ==
    SearchExtraction
    => LET pages == PageEvents(search_job[1])
       IN  /\ \A i \in DOMAIN pages :
                /\ pages[i].params.limit = 10000
                /\ pages[i].params.offset = RowsIn(pages, i - 1)
                /\ pages[i].params.offset < record_count
           /\ Len(records) = RowsIn(pages, Len(pages))
           /\ \A k \in DOMAIN records :
                /\ records[k].host = k - 1
                /\ \A f \in DOMAIN MapsIn(pages, Len(pages))[k] :
                     f \in DOMAIN records[k]
           /\ Len(yielded) <= Len(records)
           /\ yielded = SubSeq(records, 1, Len(yielded))
           /\ (pc = "done" => yielded = records)

\* C3 witness: the whole reported total was delivered by one page, and one
\* request was made
C3_Witness ==
    /\ SearchExtraction
    /\ pc = "done"
    /\ record_count = MaxCount
    /\ Len(PageEvents(search_job[1])) = 1
    /\ Len(yielded) = MaxCount

\* C4: every extracted record holds every property key of its table's schema.
C4_SchemaKeysPresent ==
    \A i \in DOMAIN yielded :
        DOMAIN Stream.schema.properties \subseteq DOMAIN yielded[i]

\* C5: in both polling loops, once a status answer reported the done or the
\* cancelled state, no further status request is issued for that job.
C5_NoPollAfterTerminal ==
    [][ (status # None /\ status[1].state \in {DONE, CANCELLED})
        => StatusRequestsIn(events', search_job[1]) = StatusRequestsIn(events, search_job[1]) ]_vars

\* C5 witness: the probe saw the done state on its first status and went on to
\* its page; the extraction then polled its own job to the done state and ended
C5_Witness ==
    /\ pc = "done"
    /\ SearchExtraction
    /\ status[1].state = DONE
    /\ jobs = 2
    /\ events[3].op = "search_job_records"
    /\ StatusRequestsIn(events, [id |-> 1]) = 1
    /\ StatusRequestsIn(events, [id |-> 2]) = 2

\* C6: a stream's key properties are the union of its schema's key properties
\* and the primary keys configured for the table.
C6_KeyPropertiesUnion ==
    \A i \in DOMAIN streams :
        RangeOf(streams[i].primary_keys)
            = RangeOf(streams[i].schema.key_properties) \cup RangeOf(table.primary_keys)

\* C7: when the metrics query answer of an extraction has a non-empty error
\* list, get_records fails with the query error and yields nothing.
C7_MetricsErrorsRaise ==
    (/\ Extracting
     /\ Stream.query_type = "metrics"
     /\ LastEvent.op = "metrics_query"
     /\ LastEvent.answer # None
     /\ Len(LastEvent.answer[1].errors.errors) > 0)
    => /\ pc = "failed"
       /\ raised # None
       /\ raised[1].type = "Exception"
       /\ yielded = << >>

\* C8: the query object of every metrics request holds the row id and the
\* query text, and holds quantization, rollup and timeshift exactly when that
\* option is configured, with the configured value.
C8_MetricsQueryKeys ==
    \A i \in DOMAIN events :
        events[i].op = "metrics_query"
        => LET q == events[i].params.queries[1]
           IN  /\ {"rowId", "query"} \subseteq DOMAIN q
               /\ DOMAIN q \subseteq {"rowId", "query", "quantization", "rollup", "timeshift"}
               /\ ("quantization" \in DOMAIN q) <=> (table.quantization # None)
               /\ ("rollup" \in DOMAIN q) <=> (table.rollup # None)
               /\ ("timeshift" \in DOMAIN q) <=> (table.timeshift # None)
               /\ \A k \in DOMAIN q \ {"rowId", "query"} : q[k] = table[k]

\* C8 witness: a metrics request was built with quantization 0 and timeshift 0
\* configured and rollup unset
C8_Witness ==
    /\ table.quantization = Some(0)
    /\ table.rollup = None
    /\ table.timeshift = Some(0)
    /\ \E i \in DOMAIN events : events[i].op = "metrics_query"

\* the field descriptors the probe's page reported (none when no page came)
ProbeFields ==
    LET fetched == { i \in DOMAIN events :
                       /\ events[i].op = "search_job_records"
                       /\ events[i].params.limit = ProbeLimit
                       /\ events[i].answer # None }
    IN  IF fetched = {} THEN << >> ELSE events[CHOOSE i \in fetched : TRUE].answer[1]

\* a stream was built with a schema inferred for a records or messages table
Inferred ==
    /\ streams # << >>
    /\ table.schema = "none"
    /\ table.query_type \in {"records", "messages"}

WindowColumns == {"start_date", "end_date", "time_zone"}

\* C9: in an inferred schema, a field reported as int or long has a type list
\* allowing integer and null, one reported as double a list allowing number and
\* null, one of any other type exactly null and string; every type list holds
\* null and none holds boolean.  (The three window columns are written after
\* the fields and are not inferred fields.)
C9_TypeMapping ==
    Inferred
    => LET props == Stream.schema.properties
       IN  /\ \A i \in DOMAIN ProbeFields :
                LET f == ProbeFields[i]
                    t == RangeOf(props[f.name].type)
                IN  f.name \notin WindowColumns
                    => IF f.fieldType \in {"int", "long"} THEN {"integer", "null"} \subseteq t
                       ELSE IF f.fieldType = "double" THEN {"number", "null"} \subseteq t
                       ELSE t = {"null", "string"}
           /\ \A n \in DOMAIN props :
                /\ "null" \in RangeOf(props[n].type)
                /\ "boolean" \notin RangeOf(props[n].type)

\* C9 witness: a schema was inferred from a boolean field and a long field
C9_Witness ==
    /\ Inferred
    /\ \E i, j \in DOMAIN ProbeFields :
         /\ ProbeFields[i].fieldType = "boolean"
         /\ ProbeFields[j].fieldType = "long"
         /\ ProbeFields[i].name \notin WindowColumns
         /\ ProbeFields[j].name \notin WindowColumns

\* C10: the schema inferred for a messages table lists the window columns,
\* _messagetime, _messageid and every field marked key among its properties and
\* among its key properties, so every key property is a property.
C10_KeysAreProperties ==
    (Inferred /\ table.query_type = "messages")
    => LET sch == Stream.schema
           listed == {"start_date", "end_date", "time_zone", "_messagetime", "_messageid"}
                        \cup { ProbeFields[i].name : i \in { j \in DOMAIN ProbeFields :
                                                              ProbeFields[j].keyField } }
       IN  /\ listed \subseteq DOMAIN sch.properties
           /\ listed \subseteq RangeOf(sch.key_properties)
           /\ RangeOf(sch.key_properties) \subseteq DOMAIN sch.properties

\* the requests and sleeps of discovery: those before get_records started
DiscoveryEvents == IF Extracting THEN SubSeq(events, 1, now_datetime[1]) ELSE events

\* the requests and sleeps of get_records
ExtractionLog == IF Extracting THEN SubSeq(events, now_datetime[1] + 1, Len(events)) ELSE << >>

IsRequest(e) == e.op # "sleep"

\* C11: get_records of a records or messages table is lazy: the rows of a
\* result page have been handed to the consumer before the next result page is
\* requested, so the rows collected and not yet yielded are never more than
\* those of one page.
C11_LazyPages ==
    SearchExtraction
    => /\ (pc = "page" => yielded = records)
       /\ (events # << >> /\ LastEvent.op = "search_job_records")
            => Len(records) - Len(yielded) <= Len(AnswerRows(LastEvent))

\* C12: a request answered with 401 fails with an error of another kind than a
\* request answered with any other 4xx or 5xx status, and the latter carries
\* the response body.
C12_AuthErrorDistinct ==
    (/\ raised # None
     /\ events # << >>
     /\ IsRequest(LastEvent)
     /\ LastEvent.code >= 400)
    => /\ raised[1].status = LastEvent.code
       /\ (LastEvent.code # 401 => raised[1].reason = "body")
       /\ (LastEvent.code = 401
             => \A c \in HttpCodes \ {401} :
                    c >= 400 => raised[1].type # HTTPError(c)[1].type)

\* C13: when a request of an extraction is answered with a 4xx or 5xx status,
\* get_records ends with that failure raised, and the failed request is the
\* last request of the extraction: it is not repeated and none follows it.
C13_FailurePropagates ==
    Extracting
    => \A i \in DOMAIN ExtractionLog :
           (IsRequest(ExtractionLog[i]) /\ ExtractionLog[i].code >= 400)
           => /\ i = Len(ExtractionLog)
              /\ pc = "failed"
              /\ raised = HTTPError(ExtractionLog[i].code)
              /\ yielded = << >>

\* C13 witness: the second page request of an extraction was answered with
\* 500 after a first page that returned a row
C13_Witness ==
    /\ SearchExtraction
    /\ pc = "failed"
    /\ Len(PageEvents(search_job[1])) = 2
    /\ LastEvent.op = "search_job_records"
    /\ LastEvent.code = 500
    /\ records # << >>

\* the table's schema is inferred by the search-job probe
Probing ==
    /\ table.schema = "none"
    /\ table.query_type \in {"records", "messages"}

\* the probe's job is the first job submitted
ProbeJob == [id |-> 1]

\* C14: the schema probe of a records or messages table issues at most two
\* status requests for its job, whatever states are reported, and is past its
\* polling after the second one.
C14_ProbePollsAtMostTwice ==
    Probing
    => /\ StatusRequestsIn(DiscoveryEvents, ProbeJob) <= 2
       /\ (pc = "probe_status" => StatusRequestsIn(DiscoveryEvents, ProbeJob) < 2)

\* C14 witness: the probe stopped polling after two status requests with the
\* job still not started
C14_Witness ==
    /\ Probing
    /\ pc = "discovered"
    /\ ~Extracting
    /\ StatusRequestsIn(events, ProbeJob) = 2
    /\ status[1].state = NOT_STARTED

\* the schema each resolution path gives the table
PathSchema ==
    IF table.schema = "path" THEN SuppliedSchema(table.query_type)
    ELSE IF table.schema = "inline" THEN SchemaBuilder_to_schema(SuppliedSchema(table.query_type))
    ELSE get_schema_for_table(table, ProbeFields)[1]

\* C15: a table that supplies a schema (a path or an inline object) has no
\* request issued for it during discovery and never enters the probe; a
\* request during discovery means the table had no schema; the stream's schema
\* is the one of the table's single resolution path.
C15_SuppliedSchemaNoRequest ==
    /\ table.schema \in {"path", "inline"}
         => /\ DiscoveryEvents = << >>
            /\ pc \notin {"probe_submit", "probe_status", "probe_fetch", "probe_metrics"}
            /\ probe_count = 0
    /\ DiscoveryEvents # << >> => table.schema = "none"
    /\ streams # << >> => Stream.schema = PathSchema

\* C15 witness: a table with an inline schema was discovered and then
\* extracted, and the first request of the run is the extraction's
C15_Witness ==
    /\ table.schema = "inline"
    /\ table.query_type = "records"
    /\ pc = "done"
    /\ yielded # << >>
    /\ now_datetime = Some(0)

\* C16: for a table whose query_type is none of records, messages and metrics,
\* discover_streams fails with the invalid-query_type error, no stream is
\* created and no request has been issued, with or without a supplied schema.
C16_InvalidQueryTypeRaises ==
    table.query_type \notin {"records", "messages", "metrics"}
    => /\ streams = << >>
       /\ events = << >>
       /\ pc \in {"discover", "failed"}
       /\ (pc = "failed" => raised # None /\ raised[1].type = "ValueError")

\* C16 witness: discovery failed for a table of an unknown query type that
\* supplies no schema
C16_Witness ==
    /\ table.query_type = "events"
    /\ table.schema = "none"
    /\ pc = "failed"
    /\ raised # None

\* C17: every record of a records or messages extraction carries the
\* configured window as start_date, end_date and time_zone, an extraction
\* timestamp and a batch timestamp equal to each other and to the time the run
\* started (so equal across the run's records), and a null deletion marker.
C17_MetadataColumns ==
    SearchExtraction
    => \A i \in DOMAIN records :
           /\ records[i].start_date = start_date
           /\ records[i].end_date = end_date
           /\ records[i].time_zone = time_zone
           /\ records[i]._SDC_EXTRACTED_AT = records[i]._SDC_BATCHED_AT
           /\ records[i]._SDC_EXTRACTED_AT = now_datetime[1]
           /\ records[i]._SDC_EXTRACTED_AT = records[1]._SDC_EXTRACTED_AT
           /\ records[i]._SDC_DELETED_AT = "None"
           /\ (i <= Len(yielded) => yielded[i] = records[i])

\* C17 witness: two records were yielded that came from two pages whose rows
\* carry a start_date field of their own
C17_Witness ==
    /\ SearchExtraction
    /\ pc = "done"
    /\ Len(yielded) = 2
    /\ Len(PageEvents(search_job[1])) = 2
    /\ PageEvents(search_job[1])[1].answer[1][1].map = RowMap("clash", 0)

\* C19: the polling phase of a full extraction is one status request followed
\* by repetitions of (sleep of 5 seconds, status request); get_records is
\* polling exactly as long as the last reported state is neither the done nor
\* the cancelled state, and a result page is requested only after the done
\* state was reported.
C19_PollingPattern ==
    SearchExtraction
    => LET log == ExtractionLog
       IN  /\ log[1].op = "search_job"
           /\ \A i \in 2..Len(log) :
                /\ log[i].op = "sleep"
                     => /\ log[i].seconds = 5
                        /\ log[i - 1].op = "search_job_status"
                        /\ (i < Len(log) => log[i + 1].op = "search_job_status")
                /\ log[i].op = "search_job_status"
                     => log[i - 1].op = (IF i = 2 THEN "search_job" ELSE "sleep")
                /\ log[i].op = "search_job_records"
                     => /\ status # None
                        /\ status[1].state = DONE
                        /\ log[i - 1].op \in {"search_job_status", "search_job_records"}
           /\ (pc = "status" => log[Len(log)].op \in {"search_job", "sleep"})
           /\ (status = None /\ raised = None => pc = "status")
           /\ (status # None /\ raised = None)
                => (pc = "status" <=> status[1].state \notin {DONE, CANCELLED})

\* C19 witness: the job was reported non-terminal twice, then done: three
\* status requests with a sleep before the second and the third, and the first
\* page is about to be requested
C19_Witness ==
    /\ SearchExtraction
    /\ pc = "page"
    /\ Len(ExtractionLog) = 6
    /\ ExtractionLog[3].op = "sleep"
    /\ ExtractionLog[5].op = "sleep"
    /\ ExtractionLog[6].op = "search_job_status"

\* the probe has returned and discovery has built the stream
ProbeReturned == Probing /\ ~Extracting /\ pc = "discovered"

\* C20 as stated: for every final state of the probe's polling other than the
\* cancelled state, the probe has requested exactly one result page, with
\* limit 1, and the schema is inferred from that page's field descriptors.
C20_ProbeFetchesUnlessCancelled ==
    (ProbeReturned /\ status[1].state # CANCELLED)
    => /\ Len(PageEvents(ProbeJob)) = 1
       /\ PageEvents(ProbeJob)[1].params.limit = 1
       /\ Stream.schema = get_schema_for_table(table, PageEvents(ProbeJob)[1].answer[1])[1]

\* C20 amended: when the final state of the probe's polling is the done or the
\* gathering state, the probe requests exactly one result page, with limit 1
\* and offset 0, and the schema is inferred from that page's field descriptors;
\* for every other final state (cancelled, not started) it requests no page and
\* the schema is inferred from no fields.
C20_ProbeFetchesWhenUsable ==
    Probing
    => LET pages == PageEvents(ProbeJob)
       IN  /\ Len(pages) <= 1
           /\ (pc = "probe_fetch" => status[1].state \in {DONE, GATHERING} /\ Len(pages) = 0)
           /\ ProbeReturned
                => IF status[1].state \in {DONE, GATHERING}
                   THEN /\ Len(pages) = 1
                        /\ pages[1].params = [limit |-> 1, offset |-> 0]
                        /\ Stream.schema = get_schema_for_table(table, pages[1].answer[1])[1]
                   ELSE /\ Len(pages) = 0
                        /\ Stream.schema = get_schema_for_table(table, << >>)[1]

\* C20 witness: the probe's job was still gathering after the second status
\* request, and the page fetched then reported a field
C20_Witness ==
    /\ ProbeReturned
    /\ StatusRequestsIn(events, ProbeJob) = 2
    /\ status[1].state = GATHERING
    /\ Len(PageEvents(ProbeJob)) = 1
    /\ ProbeFields # << >>

\* C18: a client built without an endpoint argument has issued exactly one
\* endpoint-resolution request, as its first request, and its endpoint is the
\* redirected URL; a client built with an endpoint has issued none and its
\* endpoint is the argument; every other request of the client goes to that
\* endpoint.
C18_EndpointResolvedOnce ==
    sumo # None
    => /\ IF sumo[1].endpoint_arg = None
          THEN /\ Resolutions = {1}
               /\ events[1].response_url = sumo[1].endpoint \o <<"v1", "collectors">>
          ELSE /\ Resolutions = {}
               /\ sumo[1].endpoint = sumo[1].endpoint_arg[1]
       /\ \A i \in DOMAIN events \ Resolutions :
              events[i].url = sumo[1].endpoint \o <<"v1">> \o events[i].path

\* C18 witness: a client built without an endpoint was redirected away from
\* the default endpoint and has then made a POST and a GET request
C18_Witness ==
    /\ sumo # None
    /\ sumo[1].endpoint_arg = None
    /\ sumo[1].endpoint # DefaultRootUrl
    /\ Len(events) = 3
    /\ events[2].op = "search_job"
    /\ events[3].op = "search_job_status"

\* the table's schema is resolved by the metrics probe
ProbingMetrics ==
    /\ table.schema = "none"
    /\ table.query_type = "metrics"

\* the metrics probe's request was answered by the API (no HTTP failure)
MetricsProbeAnswered ==
    /\ ProbingMetrics
    /\ DiscoveryEvents # << >>
    /\ DiscoveryEvents[1].op = "metrics_query"
    /\ DiscoveryEvents[1].answer # None

\* the schema of a metrics table: two nullable object properties, both keys
FixedMetricsSchema ==
    [ type |-> "object",
      properties |-> [ metricDefinition |-> [type |-> <<"object", "null">>],
                       points |-> [type |-> <<"object", "null">>] ],
      key_properties |-> <<"metricDefinition", "points">> ]

\* C21 as stated: for a metrics table with no supplied schema, whatever the
\* metrics API answered (a non-empty error list and an empty result included),
\* schema resolution ends with the fixed metrics schema.
C21_MetricsSchemaAnyResponse ==
    MetricsProbeAnswered
    => /\ streams # << >>
       /\ Stream.schema = FixedMetricsSchema

\* C21 amended: schema resolution of a metrics table ends with the fixed
\* metrics schema, the same for every answer, exactly when the answer has an
\* empty error list and a non-empty result; an answer with a non-empty error
\* list makes it fail with the request error, and one with no errors and an
\* empty result makes it fail on the missing first result.
C21_MetricsSchemaFixed ==
    MetricsProbeAnswered
    => LET response == DiscoveryEvents[1].answer[1]
       IN  IF Len(response.errors.errors) > 0
           THEN /\ pc = "failed"
                /\ streams = << >>
                /\ raised[1].type = "Exception"
           ELSE IF response.queryResult = << >>
           THEN /\ pc = "failed"
                /\ streams = << >>
                /\ raised[1].type = "IndexError"
           ELSE /\ streams # << >>
                /\ Stream.schema = FixedMetricsSchema

\* C21 witness: the schema of a metrics table was resolved after an answer
\* with two time series
C21_Witness ==
    /\ MetricsProbeAnswered
    /\ ~Extracting
    /\ pc = "discovered"
    /\ Len(events[1].answer[1].queryResult[1].timeSeriesList.timeSeries) = 2
    /\ Stream.schema = FixedMetricsSchema

\* C22: the polling loop of a full extraction drops the histogram of a
\* re-polled status payload and nothing else: the payload it keeps still has
\* the state and both counts; and a re-polled payload that has no histogram
\* does not make get_records raise.
C22_HistogramDiscarded ==
    SearchExtraction
    => /\ ~(raised # None /\ raised[1].type = "KeyError")
       /\ status # None
            => /\ {"state", "recordCount", "messageCount"} \subseteq DOMAIN status[1]
               /\ (StatusRequestsIn(ExtractionLog, search_job[1]) >= 2 /\ raised = None)
                    => DOMAIN status[1] = {"state", "recordCount", "messageCount"}

\* C23: a record of a records or messages extraction is yielded only after
\* every page request of the run has returned: while a record has been
\* yielded no request is pending or failed, and when a page request fails
\* after earlier pages were fetched, none of their records has been yielded.
C23_AllOrNothing ==
    SearchExtraction
    => /\ yielded # << >>
            => /\ pc \in {"yield", "done"}
               /\ raised = None
               /\ \A i \in DOMAIN ExtractionLog :
                      IsRequest(ExtractionLog[i]) => ExtractionLog[i].code = 200
       /\ pc = "failed" => yielded = << >>
       /\ pc \in {"status", "page"} => yielded = << >>

\* C23 witness: the second page request was refused with 401 after the first
\* page had returned a row, and nothing was yielded
C23_Witness ==
    /\ SearchExtraction
    /\ pc = "failed"
    /\ Len(records) = 1
    /\ yielded = << >>
    /\ LastEvent.op = "search_job_records"
    /\ LastEvent.code = 401
    /\ LastEvent.params.offset = 1

MetadataColumns ==
    {"start_date", "end_date", "time_zone",
     "_SDC_EXTRACTED_AT", "_SDC_BATCHED_AT", "_SDC_DELETED_AT"}

\* the value each metadata column has in the records of this run
MetadataValue(column) ==
    IF column = "start_date" THEN start_date
    ELSE IF column = "end_date" THEN end_date
    ELSE IF column = "time_zone" THEN time_zone
    ELSE IF column = "_SDC_DELETED_AT" THEN "None"
    ELSE now_datetime[1]

\* C24: in every output record, a field named like a metadata column holds the
\* metadata value, also when the row's field map has a field of that name, and
\* every other field of the row is copied unchanged; the record has no other
\* field.
C24_MetadataOverridesRow ==
    SearchExtraction
    => LET maps == MapsIn(PageEvents(search_job[1]), Len(PageEvents(search_job[1])))
       IN  /\ Len(records) = Len(maps)
           /\ \A k \in DOMAIN records :
                /\ DOMAIN records[k] = DOMAIN maps[k] \cup MetadataColumns
                /\ \A f \in DOMAIN records[k] :
                     records[k][f] = IF f \in MetadataColumns THEN MetadataValue(f)
                                     ELSE maps[k][f]
           /\ \A k \in DOMAIN yielded : yielded[k] = records[k]

\* C24 witness: a record was yielded whose row had fields named like all six
\* metadata columns, with other values
C24_Witness ==
    /\ SearchExtraction
    /\ pc = "done"
    /\ Len(yielded) = 1
    /\ Len(PageEvents(search_job[1])) = 1
    /\ MetadataColumns \subseteq DOMAIN PageEvents(search_job[1])[1].answer[1][1].map
    /\ PageEvents(search_job[1])[1].answer[1][1].map.start_date # start_date

====
